---- MODULE Spec2Model ----
(***************************************************************************)
(* Model of duc-validation.ipynb: the manifest builder (val_lst), the      *)
(* IoUMetric accumulator (check_label_shapes, reset, update, get) and the  *)
(* driver loop that feeds it.                                              *)
(*                                                                         *)
(* Numbers.  Pixel counts are integers.  The floating-point IoU values are *)
(* carried in fixed point, in units of eps = 1e-6 and rounded down: the    *)
(* value 1.0 is EpsInv, and tp / (denom + eps) is                          *)
(* floor(tp * EpsInv^2 / (denom * EpsInv + 1)).                            *)
(*                                                                         *)
(* Arrays.  A numpy label array is [shape |-> <<rows, cols>>, flat |-> s]  *)
(* with Len(s) = rows * cols; a score tensor is                            *)
(* [shape |-> <<rows, cols>>, scores |-> s] where s[k] is the vector of    *)
(* channel scores of pixel k.  Class j of the code is index j + 1 of the   *)
(* sequences _tp and _denom.                                               *)
(***************************************************************************)
EXTENDS Integers, Sequences, FiniteSets

VARIABLES
    ignore_label,   \* IoUMetric._ignore_label
    label_num,      \* IoUMetric._label_num
    _tp,            \* IoUMetric._tp, one running count per class
    _denom,         \* IoUMetric._denom, one running count per class
    sum_metric,     \* EvalMetric.sum_metric: <<>> while never assigned, else <<v>>
    num_inst,       \* EvalMetric.num_inst: <<>> while never assigned, else <<n>>
    op,             \* the last IoUMetric method called
    raised,         \* what that call raised ("none" when it returned)
    args,           \* the arguments of the single update call (SpecSample)
    samples,        \* the samples to be fed in some order and grouping (SpecOrder)
    fed,            \* the indices of samples already fed (SpecOrder)
    pc,             \* position in the notebook's cells ("idle": not running)
    source,         \* val_dataloader: the batches' label lists, in order
    nbatch,         \* batches completed by the driver loop
    trace,          \* what the driver has done so far, in order
    stdout,         \* lines printed by the driver cells
    disk,           \* the files on disk: [images |-> set, labels |-> set]
    all_images,     \* the list globbed, then sorted
    pos,            \* images of all_images already visited
    index,          \* the manifest builder's counter
    val_lst,        \* the sample list being built
    val_out         \* the lines written to val.lst

metricVars == <<ignore_label, label_num, _tp, _denom, sum_metric, num_inst, op, raised>>
sampleVars == <<args>>
orderVars == <<samples, fed>>
driverVars == <<source, nbatch, trace, stdout>>
listVars == <<disk, all_images, pos, index, val_lst, val_out>>
vars == <<metricVars, sampleVars, orderVars, pc, driverVars, listVars>>

----------------------------------------------------------------------------
(* Bounds of the model *)

\* most samples fed in some order and grouping (SpecOrder)
MaxSamples == 2
\* most image files the glob pattern matches (SpecList)
MaxImages == 3
\* most batches the data source yields (SpecDriver)
MaxBatches == 3
\* largest label_num a metric is constructed with
MaxLabelNum == 2
\* most pixels in one aligned batch of a sequence of updates (Spec)
SeqPix == 1
\* no class's running denominator is driven beyond this (Spec)
MaxCount == 3
\* most pixels in the label list, and in the score list, of a single call
\* (SpecSample)
CallPix == 2

(* Program constants *)

\* eps = 1e-6, as its inverse
EpsInv == 1000000
\* ignore_label=255 of the metric the notebook creates
IgnoreSentinel == 255
\* range(1, RangeStop): the crops of one image
RangeStop == 8
\* crop heights are multiples of CropStep
CropStep == 256
\* batch_size of the data source
batch_size == 16
\* a progress line every ProgressEvery batches
ProgressEvery == 10
\* the image count the progress line assumes
NumImages == 3500

----------------------------------------------------------------------------
(* Inputs *)

\* ground-truth pixel values: two classes and the ignore sentinel
GtVals == {0, 1, IgnoreSentinel}
\* the ignore_label values a metric is constructed with: the sentinel, and a
\* value that is also a class when label_num >= 2
IgnoreLabels == {IgnoreSentinel, 1}
\* per-pixel channel scores: one-hot over two channels
OneHot == {<<1, 0>>, <<0, 1>>}

RECURSIVE SeqsOfLen(_, _)
SeqsOfLen(S, n) ==
    IF n = 0 THEN {<<>>}
    ELSE {Append(s, x) : s \in SeqsOfLen(S, n - 1), x \in S}

SeqsUpTo(S, n) == UNION {SeqsOfLen(S, k) : k \in 0..n}

LabelArray(shape, flat) == [shape |-> shape, flat |-> flat]
ScoreTensor(shape, scores) == [shape |-> shape, scores |-> scores]

----------------------------------------------------------------------------
(* numpy / mxnet helpers used by update *)

\* index of the first largest score, 0-based
ArgMax(v) ==
    (CHOOSE c \in 1..Len(v) :
        /\ \A d \in 1..Len(v) : v[d] <= v[c]
        /\ \A d \in 1..(c - 1) : v[d] < v[c]) - 1

\* mx.ndarray.argmax_channel(t).asnumpy().astype('int32')
RECURSIVE ArgMaxEach(_)
ArgMaxEach(scores) ==
    IF scores = <<>> THEN <<>>
    ELSE <<ArgMax(Head(scores))>> \o ArgMaxEach(Tail(scores))

argmax_channel(t) == [shape |-> t.shape, flat |-> ArgMaxEach(t.scores)]

\* len() of a numpy array: its first dimension
ArrayLen(a) == a.shape[1]

\* (a.flat == v): a flat boolean mask
RECURSIVE EqEach(_, _)
EqEach(flat, v) ==
    IF flat = <<>> THEN <<>>
    ELSE <<Head(flat) = v>> \o EqEach(Tail(flat), v)

FlatEq(a, v) == EqEach(a.flat, v)

\* two flat masks can be combined if equally long or one has a single element
CanBroadcast(x, y) == Len(x) = Len(y) \/ Len(x) = 1 \/ Len(y) = 1
BroadcastLen(x, y) == IF Len(x) = 1 THEN Len(y) ELSE Len(x)
At(x, k) == IF Len(x) = 1 THEN x[1] ELSE x[k]

\* np.logical_and(x, y).sum() and np.logical_or(x, y).sum()
AndSum(x, y) == Cardinality({k \in 1..BroadcastLen(x, y) : At(x, k) /\ At(y, k)})
OrSum(x, y) == Cardinality({k \in 1..BroadcastLen(x, y) : At(x, k) \/ At(y, k)})

\* check_label_shapes with shape=0: TRUE iff it raises ValueError
check_label_shapes(label_shape, pred_shape) == label_shape # pred_shape

\* the per-class counts of one sample
SampleTp(pred_cur, gt_cur) == AndSum(pred_cur, gt_cur)

\* SampleDenom with the correction taken from the wrong mask
SampleDenomWrongMask(pred_cur, gt_cur, ign_cur) ==
    OrSum(pred_cur, gt_cur) - AndSum(pred_cur, gt_cur)

\* SampleDenom without the correction for ignored pixels
SampleDenomUncorrected(pred_cur, gt_cur, ign_cur) == OrSum(pred_cur, gt_cur)

SampleDenom(pred_cur, gt_cur, ign_cur) == OrSum(pred_cur, gt_cur) - AndSum(pred_cur, ign_cur)

\* x / (y + eps), in units of eps, rounded down (long division, base 100)
RECURSIVE DivDigits(_, _, _, _)
DivDigits(q, r, D, n) ==
    IF n = 0 THEN q
    ELSE DivDigits(q * 100 + ((r * 100) \div D), (r * 100) % D, D, n - 1)

DivEps(x, y) ==
    LET D == y * EpsInv + 1
        n0 == x * EpsInv
    IN DivDigits(n0 \div D, n0 % D, D, 3)

----------------------------------------------------------------------------
(* IoUMetric *)

Classes == 0..(label_num - 1)
RECURSIVE Zeros(_)
Zeros(n) == IF n = 0 THEN <<>> ELSE Append(Zeros(n - 1), 0)

\* the mutable part of the metric, as update reads and writes it
MetricState == [tp |-> _tp, denom |-> _denom, sum_metric |-> sum_metric,
                num_inst |-> num_inst, raised |-> "none"]

\* the loop over the classes (lines 182-190) for one sample, from class j on
RECURSIVE ClassLoop(_, _, _, _, _)
ClassLoop(st, iou, label, pred_label, j) ==
    IF j >= label_num THEN [st |-> st, iou |-> iou]
    ELSE
        LET pred_cur == FlatEq(pred_label, j)
            gt_cur == FlatEq(label, j)
            ign_cur == FlatEq(label, ignore_label)
        IN  IF ~CanBroadcast(pred_cur, gt_cur)
            THEN [st |-> [st EXCEPT !.raised = "BroadcastError"], iou |-> iou]
            ELSE
                LET tp == SampleTp(pred_cur, gt_cur)
                    denom == SampleDenom(pred_cur, gt_cur, ign_cur)
                IN  IF ~(tp <= denom)
                    THEN [st |-> [st EXCEPT !.raised = "AssertionError"], iou |-> iou]
                    ELSE
                        LET st2 == [st EXCEPT !.tp[j + 1] = @ + tp,
                                              !.denom[j + 1] = @ + denom]
                        IN  ClassLoop(st2, iou + DivEps(st2.tp[j + 1], st2.denom[j + 1]),
                                      label, pred_label, j + 1)

\* IoUMean with the division left out
IoUMeanUndivided(iou) == iou

\* iou /= self._label_num
IoUMean(iou) == iou \div label_num

\* the loop over the samples (lines 174-193), from sample i on
RECURSIVE SampleLoop(_, _, _, _)
SampleLoop(st, labels, preds, i) ==
    IF i > Len(labels) THEN st
    ELSE
        LET pred_label == argmax_channel(preds[i])
            label == labels[i]
        IN  IF check_label_shapes(ArrayLen(label), ArrayLen(pred_label))
            THEN [st EXCEPT !.raised = "ShapeMismatchSample"]
            ELSE
                LET r == ClassLoop(st, 0, label, pred_label, 0)
                IN  IF r.st.raised # "none" THEN r.st
                    ELSE SampleLoop([r.st EXCEPT !.sum_metric = <<IoUMean(r.iou)>>,
                                                 !.num_inst = <<1>>],
                                    labels, preds, i + 1)

\* update checking the two lists' lengths only after the samples both hold
updateLateCheck(labels, preds) ==
    LET n == IF Len(labels) < Len(preds) THEN Len(labels) ELSE Len(preds)
        st == SampleLoop(MetricState, SubSeq(labels, 1, n), SubSeq(preds, 1, n), 1)
    IN  IF st.raised = "none" /\ check_label_shapes(Len(labels), Len(preds))
        THEN [st EXCEPT !.raised = "ShapeMismatchBatch"]
        ELSE st

\* update scoring each batch on its own
updatePerBatch(labels, preds) ==
    IF check_label_shapes(Len(labels), Len(preds))
    THEN [MetricState EXCEPT !.raised = "ShapeMismatchBatch"]
    ELSE SampleLoop([MetricState EXCEPT !.tp = Zeros(label_num),
                                        !.denom = Zeros(label_num)],
                    labels, preds, 1)

\* IoUMetric.update(labels, preds): the metric state it leaves
update(labels, preds) ==
    IF check_label_shapes(Len(labels), Len(preds))
    THEN [MetricState EXCEPT !.raised = "ShapeMismatchBatch"]
    ELSE SampleLoop(MetricState, labels, preds, 1)

\* EvalMetric.get()[1]: the value reported, or what reading it raises
get ==
    IF num_inst = <<>> \/ sum_metric = <<>> THEN [raised |-> "AttributeError", value |-> 0]
    ELSE IF num_inst[1] = 0 THEN [raised |-> "nan", value |-> 0]
    ELSE [raised |-> "none", value |-> sum_metric[1] \div num_inst[1]]

\* mean over the classes of tp[j] / (denom[j] + eps)
RECURSIVE IoUSum(_, _, _)
IoUSum(tp, denom, j) ==
    IF j = 0 THEN 0 ELSE IoUSum(tp, denom, j - 1) + DivEps(tp[j], denom[j])

\* IoUMetric.reset(): the metric state it leaves
reset == [MetricState EXCEPT !.tp = Zeros(label_num), !.denom = Zeros(label_num)]

----------------------------------------------------------------------------
(* Values the variables of another part of the notebook keep while one part runs *)

IdleSample == args = <<>>
IdleOrder == samples = <<>> /\ fed = {}
IdleDriver == source = <<>> /\ nbatch = 0 /\ trace = <<>> /\ stdout = <<>>
IdleList ==
    /\ disk = [images |-> {}, labels |-> {}]
    /\ all_images = <<>> /\ pos = 0 /\ index = 0 /\ val_lst = <<>> /\ val_out = <<>>

\* IoUMetric.__init__: the base constructor ends by calling reset(), which here
\* assigns _tp and _denom only
Construct ==
    /\ ignore_label \in IgnoreLabels
    /\ label_num \in 1..MaxLabelNum
    /\ _tp = Zeros(label_num)
    /\ _denom = Zeros(label_num)
    /\ sum_metric = <<>>
    /\ num_inst = <<>>
    /\ op = "__init__"
    /\ raised = "none"

\* the metric takes the state st a method call leaves
Becomes(st, method) ==
    /\ _tp' = st.tp
    /\ _denom' = st.denom
    /\ sum_metric' = st.sum_metric
    /\ num_inst' = st.num_inst
    /\ raised' = st.raised
    /\ op' = method
    /\ UNCHANGED <<ignore_label, label_num>>

WithinCount(st) == \A j \in 1..label_num : st.denom[j] <= MaxCount

----------------------------------------------------------------------------
(* Spec: one metric, any sequence of reset and update calls *)

\* samples of n pixels in one row, label and scores aligned
RowSamples(n) ==
    {[label |-> LabelArray(<<1, n>>, g), pred |-> ScoreTensor(<<1, n>>, s)] :
        g \in SeqsOfLen(GtVals, n), s \in SeqsOfLen(OneHot, n)}

\* the lists of aligned samples holding at most p pixels in all
RECURSIVE SampleLists(_)
SampleLists(p) ==
    {<<>>} \cup UNION {{<<s>> \o b : s \in RowSamples(n), b \in SampleLists(p - n)} :
                          n \in 1..p}

RECURSIVE LabelsOf(_)
LabelsOf(b) == IF b = <<>> THEN <<>> ELSE <<Head(b).label>> \o LabelsOf(Tail(b))

RECURSIVE PredsOf(_)
PredsOf(b) == IF b = <<>> THEN <<>> ELSE <<Head(b).pred>> \o PredsOf(Tail(b))

AsBatch(b) == [labels |-> LabelsOf(b), preds |-> PredsOf(b)]

AlignedBatches == {AsBatch(b) : b \in SampleLists(SeqPix)}

\* batches whose label list and output list differ in length
UnequalBatches ==
    {[labels |-> <<s.label, s.label>>, preds |-> <<s.pred>>] : s \in RowSamples(1)}
    \cup {[labels |-> <<s.label>>, preds |-> <<s.pred, s.pred>>] : s \in RowSamples(1)}

Batches == AlignedBatches \cup UnequalBatches

Init ==
    /\ Construct
    /\ pc = "idle"
    /\ IdleSample /\ IdleOrder /\ IdleDriver /\ IdleList

Reset ==
    /\ Becomes(reset, "reset")
    /\ UNCHANGED <<sampleVars, orderVars, pc, driverVars, listVars>>

\* an update call whose result stays within the model's bound on the counts
BoundedBecomes(st, method) == WithinCount(st) /\ Becomes(st, method)

Update(b) ==
    /\ BoundedBecomes(update(b.labels, b.preds), "update")
    /\ UNCHANGED <<sampleVars, orderVars, pc, driverVars, listVars>>

Next ==
    \/ Reset
    \/ \E b \in Batches : Update(b)

Spec == Init /\ [][Next]_vars

----------------------------------------------------------------------------
(* Claims about sequences of calls (Spec) *)

IgnoreIsClass == ignore_label \in Classes
AllZero == _tp = Zeros(label_num) /\ _denom = Zeros(label_num)

C2_GetIsCumulativeMean ==
    (op = "update" /\ raised = "none" /\ sum_metric # <<>> /\ ~IgnoreIsClass)
        => get = [raised |-> "none", value |-> IoUMean(IoUSum(_tp, _denom, label_num))]

\* C3 as stated: right after reset() every counter is zero and get() reports
\* 0.  (A metric whose sum_metric was never assigned, or whose ignore_label
\* is a class, is left aside.)
C3_ResetReturnsToFresh ==
    (op = "reset" /\ sum_metric # <<>> /\ ~IgnoreIsClass)
        => (AllZero /\ get = [raised |-> "none", value |-> 0])

\* C10: an update call whose label and output lists differ in length leaves
\* every counter, and what get() reports, as they were before the call.
C10_UnequalLengthsNoEffect ==
    [][(op' = "update" /\ raised' = "ShapeMismatchBatch")
          => (_tp' = _tp /\ _denom' = _denom /\ get' = get)]_vars

\* such a call was made on a metric that had accumulated and reported
C10_Witness ==
    /\ op = "update" /\ raised = "ShapeMismatchBatch"
    /\ get.raised = "none" /\ get.value > 0
    /\ \E j \in 1..label_num : _denom[j] > 0

----------------------------------------------------------------------------
(* SpecSample: one update call on a freshly constructed metric; the call's *)
(* arguments stay in args, so that what update did can be read against them *)

\* the array shapes holding n elements in two dimensions
Shapes(n) == {<<r, n \div r>> : r \in {q \in 1..n : n % q = 0}}

LabelArrays(n) ==
    {LabelArray(sh, g) : sh \in Shapes(n), g \in SeqsOfLen(GtVals, n)}
ScoreTensors(n) ==
    {ScoreTensor(sh, sc) : sh \in Shapes(n), sc \in SeqsOfLen(OneHot, n)}

\* the lists of arrays, Arrays(n) being those of n elements, holding at most
\* p elements in all
RECURSIVE ListsWithin(_, _)
ListsWithin(Arrays(_), p) ==
    {<<>>} \cup UNION {{<<a>> \o l : a \in Arrays(n), l \in ListsWithin(Arrays, p - n)} :
                          n \in 1..p}

Calls ==
    {[labels |-> l, preds |-> q] :
        l \in ListsWithin(LabelArrays, CallPix), q \in ListsWithin(ScoreTensors, CallPix)}

InitSample ==
    /\ Construct
    /\ args \in Calls
    /\ pc = "idle"
    /\ IdleOrder /\ IdleDriver /\ IdleList

Call ==
    /\ op = "__init__"
    /\ Becomes(update(args.labels, args.preds), "update")
    /\ UNCHANGED <<sampleVars, orderVars, pc, driverVars, listVars>>

NextSample == Call

SpecSample == InitSample /\ [][NextSample]_vars

----------------------------------------------------------------------------
(* Claims about one call (SpecSample) *)

\* the two lists are equally long and every pair has one shape
Aligned(a) ==
    /\ Len(a.labels) = Len(a.preds)
    /\ \A i \in 1..Len(a.labels) : a.labels[i].shape = argmax_channel(a.preds[i]).shape

\* the pixels of an aligned call, their ground truth and their predicted class
Pixels(a) ==
    UNION {{<<i, k>> : k \in 1..Len(a.labels[i].flat)} : i \in 1..Len(a.labels)}
Gt(a, px) == a.labels[px[1]].flat[px[2]]
Pr(a, px) == ArgMax(a.preds[px[1]].scores[px[2]])

\* every pixel that is not ignored is predicted as its ground-truth class
Perfect(a) ==
    /\ Aligned(a)
    /\ \A px \in Pixels(a) : Gt(a, px) = ignore_label \/ Pr(a, px) = Gt(a, px)

Occurring(a) == {j \in Classes : \E px \in Pixels(a) : Gt(a, px) = j}
Contribution(j) == DivEps(_tp[j + 1], _denom[j + 1])
\* 1.0 up to the epsilon offset
NearOne(v) == EpsInv - 1 <= v /\ v <= EpsInv

\* C4, as amended: on a fresh metric whose ignore_label is not a class, after
\* an update with a batch of at least one sample in which every non-ignored
\* pixel is predicted as its ground-truth class, every class that occurs in
\* the batch's ground truth has tp = denom > 0 and an IoU contribution of 1.0
\* up to eps, every class that does not occur has contribution 0, and get()
\* reports (number of occurring classes) / label_num up to eps: 1.0 only
\* when all label_num classes occur.
C4_PerfectBatch ==
    (op = "update" /\ Perfect(args) /\ args.labels # <<>> /\ ~IgnoreIsClass)
        => /\ raised = "none"
           /\ \A j \in Occurring(args) :
                 _tp[j + 1] = _denom[j + 1] /\ _tp[j + 1] > 0 /\ NearOne(Contribution(j))
           /\ \A j \in Classes \ Occurring(args) : Contribution(j) = 0
           /\ get = [raised |-> "none",
                     value |-> (Cardinality(Occurring(args)) * (EpsInv - 1)) \div label_num]
           /\ NearOne(get.value) <=> Occurring(args) = Classes

\* a perfect batch in which one class occurs and another does not
C4_Witness ==
    /\ op = "update" /\ Perfect(args) /\ args.labels # <<>> /\ ~IgnoreIsClass
    /\ Occurring(args) # {} /\ Occurring(args) # Classes

\* C4 as stated: after such an update every class's contribution is 1.0 up to
\* eps and get() reports 1.0, also when some classes do not occur.
C4_Original ==
    (op = "update" /\ Perfect(args) /\ args.labels # <<>> /\ ~IgnoreIsClass)
        => /\ \A j \in Classes : NearOne(Contribution(j))
           /\ get.raised = "none" /\ NearOne(get.value)

\* the denominator the claim gives class j: the pixels labelled j, and the
\* pixels predicted j whose ground truth is neither j nor the ignore label
ClaimedDenom(a, j) ==
    Cardinality({px \in Pixels(a) : Gt(a, px) = j})
    + Cardinality({px \in Pixels(a) :
                      Pr(a, px) = j /\ Gt(a, px) # j /\ Gt(a, px) # ignore_label})

C6_MisalignedRaises ==
    (op = "update" /\ ~Aligned(args)) => raised # "none"

----------------------------------------------------------------------------
(* SpecOrder: a list of valid samples is fed to one metric, in any order    *)
(* and in any grouping into batches                                         *)

\* a sample update accepts: aligned, and the assertion holds for each class
Accepted(s) == update(<<s.label>>, <<s.pred>>).raised = "none"

\* the sequences of distinct elements of the set S
RECURSIVE Orderings(_)
Orderings(S) ==
    {<<>>} \cup UNION {{<<x>> \o o : o \in Orderings(S \ {x})} : x \in S}

RECURSIVE Pick(_, _)
Pick(s, order) ==
    IF order = <<>> THEN <<>> ELSE <<s[Head(order)]>> \o Pick(s, Tail(order))

InitOrder ==
    /\ Construct
    /\ samples \in SeqsUpTo({s \in RowSamples(1) : Accepted(s)}, MaxSamples)
    /\ fed = {}
    /\ pc = "idle"
    /\ IdleSample /\ IdleDriver /\ IdleList

\* one update call with the not yet fed samples order names, as one batch
Feed(order) ==
    /\ order # <<>>
    /\ Becomes(update(LabelsOf(Pick(samples, order)), PredsOf(Pick(samples, order))),
               "update")
    /\ fed' = fed \cup {order[i] : i \in 1..Len(order)}
    /\ UNCHANGED <<samples, sampleVars, pc, driverVars, listVars>>

NextOrder == \E order \in Orderings((1..Len(samples)) \ fed) : Feed(order)

SpecOrder == InitOrder /\ [][NextOrder]_vars

\* the samples fed as they are listed, in one batch, to a fresh metric
InListOrder ==
    SampleLoop([tp |-> Zeros(label_num), denom |-> Zeros(label_num),
                sum_metric |-> <<>>, num_inst |-> <<>>, raised |-> "none"],
               LabelsOf(samples), PredsOf(samples), 1)

AllFed == fed = 1..Len(samples)

\* C9: once every sample has been fed, in whatever order and grouping, the
\* counters _tp and _denom and the value get() reports are those of feeding
\* the samples in their listed order: they do not depend on the order or on
\* the grouping into batches.
C9_OrderAndGroupingIrrelevant ==
    AllFed => /\ raised = "none"
              /\ _tp = InListOrder.tp
              /\ _denom = InListOrder.denom
              /\ sum_metric = InListOrder.sum_metric
              /\ num_inst = InListOrder.num_inst

\* two different samples have been fed and counted
C9_Witness ==
    /\ AllFed /\ Len(samples) >= 2 /\ samples[1] # samples[2]
    /\ \E j \in 1..label_num : _tp[j] > 0 /\ _denom[j] > _tp[j]

----------------------------------------------------------------------------
(* SpecList: the cell that builds the sample list val_lst and writes        *)
(* val.lst.  A path is the sequence of its parts <<directory, city, stem,   *)
(* kind>>, standing for directory/city/stem_kind.png; str.replace acts on   *)
(* the parts, and paths are ordered part by part.                           *)

\* the parts of paths, in the order of their strings
Parts ==
    <<"000000", "color", "data_dir", "frankfurt", "gtFine_labelIds", "label_dir",
      "leftImg8bit", "lindau">>

Cities == {"frankfurt", "lindau"}

\* the files data_dir/*/*.png can match
ImageFiles ==
    {<<"data_dir", c, "000000", k>> :
        c \in Cities, k \in {"leftImg8bit", "gtFine_labelIds", "color"}}

\* files below label_dir
LabelFiles ==
    {<<"label_dir", c, "000000", k>> : c \in Cities, k \in {"gtFine_labelIds", "color"}}

Disks ==
    {[images |-> im, labels |-> lb] :
        im \in {x \in SUBSET ImageFiles : Cardinality(x) <= MaxImages},
        lb \in SUBSET LabelFiles}

\* str.replace(old, new)
replace(path, old, new) == [k \in DOMAIN path |-> IF path[k] = old THEN new ELSE path[k]]

\* the label path derived from image path p
LabelPath(p) == replace(replace(p, "data_dir", "label_dir"), "leftImg8bit", "gtFine_labelIds")

isfile(path) == path \in disk.labels

Rank(part) == CHOOSE k \in 1..Len(Parts) : Parts[k] = part

\* p < q on paths as Python compares their strings
RECURSIVE Less(_, _)
Less(p, q) ==
    IF q = <<>> THEN FALSE
    ELSE IF p = <<>> THEN TRUE
    ELSE IF Head(p) = Head(q) THEN Less(Tail(p), Tail(q))
    ELSE Rank(Head(p)) < Rank(Head(q))

RECURSIVE Insert(_, _)
Insert(x, l) ==
    IF l = <<>> THEN <<x>>
    ELSE IF Less(Head(l), x) THEN <<Head(l)>> \o Insert(x, Tail(l))
    ELSE <<x>> \o l

\* a list left in the order glob returned it
unsorted(l) == l

\* list.sort()
RECURSIVE sort(_)
sort(l) == IF l = <<>> THEN <<>> ELSE Insert(Head(l), sort(Tail(l)))

Digits == <<"0", "1", "2", "3", "4", "5", "6", "7", "8", "9">>

\* str(n) of a natural number
RECURSIVE str(_)
str(n) == IF n < 10 THEN Digits[n + 1] ELSE str(n \div 10) \o Digits[(n % 10) + 1]

\* range(a, b)
range(a, b) == a..(b - 1)

\* the records appended for one matched image, i running up to the end of range(1, RangeStop)
RECURSIVE Records(_, _, _, _)
Records(idx, p, l, i) ==
    IF i \notin range(1, RangeStop) THEN <<>>
    ELSE <<<<str(idx), p, l, "512", str(CropStep * i)>>>> \o Records(idx, p, l, i + 1)

PathString(p) == p[1] \o "/" \o p[2] \o "/" \o p[3] \o "_" \o p[4] \o ".png"

\* '\t'.join(line)
join(line) ==
    line[1] \o "\t" \o PathString(line[2]) \o "\t" \o PathString(line[3])
            \o "\t" \o line[4] \o "\t" \o line[5]

RECURSIVE Lines(_)
Lines(lst) == IF lst = <<>> THEN <<>> ELSE <<join(Head(lst))>> \o Lines(Tail(lst))

\* the lists holding each element of S once
Listings(S) == {o \in Orderings(S) : Len(o) = Cardinality(S)}

\* the metric, defined by a later cell, takes no part in SpecList
InitList ==
    /\ Construct
    /\ disk \in Disks
    /\ all_images = <<>> /\ pos = 0 /\ index = 0 /\ val_lst = <<>> /\ val_out = <<>>
    /\ pc = "list"
    /\ IdleSample /\ IdleOrder /\ IdleDriver

\* index = 0 ... all_images.sort(); glob returns the files in some order
Glob(listing) ==
    /\ pc = "list"
    /\ index' = 0
    /\ val_lst' = <<>>
    /\ all_images' = sort(listing)
    /\ pos' = 0
    /\ pc' = "for_p"
    /\ UNCHANGED <<disk, val_out, metricVars, sampleVars, orderVars, driverVars>>

\* one iteration of for p in all_images, the label file present
Keep ==
    /\ pc = "for_p" /\ pos < Len(all_images)
    /\ isfile(LabelPath(all_images[pos + 1]))
    /\ index' = index + 1
    /\ val_lst' = val_lst \o Records(index + 1, all_images[pos + 1],
                                     LabelPath(all_images[pos + 1]), 1)
    /\ pos' = pos + 1
    /\ UNCHANGED <<disk, all_images, val_out, pc, metricVars, sampleVars, orderVars,
                   driverVars>>

\* one iteration of for p in all_images, the label file missing
Skip ==
    /\ pc = "for_p" /\ pos < Len(all_images)
    /\ ~isfile(LabelPath(all_images[pos + 1]))
    /\ pos' = pos + 1
    /\ UNCHANGED <<disk, all_images, index, val_lst, val_out, pc, metricVars,
                   sampleVars, orderVars, driverVars>>

\* the loop is over: val.lst is written
WriteList ==
    /\ pc = "for_p" /\ pos = Len(all_images)
    /\ val_out' = Lines(val_lst)
    /\ pc' = "written"
    /\ UNCHANGED <<disk, all_images, pos, index, val_lst, metricVars, sampleVars,
                   orderVars, driverVars>>

NextList ==
    \/ \E listing \in Listings(disk.images) : Glob(listing)
    \/ Keep
    \/ Skip
    \/ WriteList

SpecList == InitList /\ [][NextList]_vars

\* the images whose derived label file exists
Matched == {p \in disk.images : LabelPath(p) \in disk.labels}

\* the place of matched image p among the matched images in path order
Place(p) == Cardinality({q \in Matched : Less(q, p)}) + 1

Numerals == <<"1", "2", "3", "4", "5", "6">>
Heights == <<"256", "512", "768", "1024", "1280", "1536", "1792">>

\* C7: the finished sample list holds 7 records for each image whose derived
\* label file exists and none for the others; the 7 records of the k-th
\* matched image in path order are consecutive (records 7(k-1)+1 .. 7k), carry
\* the index k, the image path, the label path and the width 512, and their
\* heights are 256, 512, ..., 1792 in that order; val.lst has one line for
\* each record.
C7_SevenRecordsPerPair ==
    pc = "written" =>
        /\ Len(val_lst) = 7 * Cardinality(Matched)
        /\ Len(val_out) = Len(val_lst)
        /\ \A p \in Matched : \A i \in 1..7 :
              val_lst[7 * (Place(p) - 1) + i]
                  = <<Numerals[Place(p)], p, LabelPath(p), "512", Heights[i]>>

\* a finished list of two or more matched images, another image skipped
C7_Witness ==
    /\ pc = "written" /\ Cardinality(Matched) >= 2 /\ Matched # disk.images
    /\ Len(val_lst) >= 14

----------------------------------------------------------------------------
(* SpecDriver: the validation loop and the cell that prints the result.     *)
(* The data source yields the label lists of source in turn; inference is   *)
(* outside the notebook: it raises or returns some list of score tensors.   *)

\* eval_batch.label of the batches a data source can yield
BatchLabels == {<<LabelArray(<<1, 1>>, g)>> : g \in SeqsOfLen(GtVals, 1)}

\* what mod.get_outputs() can return
Outputs == {<<ScoreTensor(<<1, 1>>, sc)>> : sc \in SeqsOfLen(OneHot, 1)} \cup {<<>>}

Event(name, k, ok) == [ev |-> name, k |-> k, ok |-> ok]

\* an exception swallowed by the loop
Swallow(exc) == "for_batch"

\* no try/except: an exception leaves the cell and ends the run
Propagate(exc) == IF exc # "none" THEN "aborted" ELSE "for_batch"

\* print('{} / {} batches done' ...) every ProgressEvery batches
Progress(n) ==
    IF n % ProgressEvery = 0
    THEN Append(stdout, <<"batches done", n, NumImages \div batch_size>>)
    ELSE stdout

InitDriver ==
    /\ Construct
    /\ source \in SeqsUpTo(BatchLabels, MaxBatches)
    /\ nbatch = 0 /\ trace = <<>> /\ stdout = <<>>
    /\ pc = "driver"
    /\ IdleSample /\ IdleOrder /\ IdleList

\* val_dataloader.reset(); metric.reset()
ResetBoth ==
    /\ pc = "driver"
    /\ Becomes(reset, "reset")
    /\ nbatch' = 0
    /\ trace' = Append(trace, Event("reset", 0, TRUE))
    /\ pc' = "for_batch"
    /\ UNCHANGED <<source, stdout, sampleVars, orderVars, listVars>>

\* the loop body, mod.forward raising
ForwardRaises ==
    /\ pc = "for_batch" /\ nbatch < Len(source)
    /\ trace' = Append(trace, Event("forward", nbatch + 1, FALSE))
    /\ pc' = Propagate("MXNetError")
    /\ UNCHANGED <<source, nbatch, stdout, metricVars, sampleVars, orderVars, listVars>>

Body(st, k) ==
    /\ Becomes(st, "update")
    /\ trace' = trace \o <<Event("forward", k + 1, TRUE),
                          Event("update", k + 1, st.raised = "none")>>
    /\ pc' = Propagate(st.raised)
    /\ nbatch' = IF st.raised = "none" THEN k + 1 ELSE k
    /\ stdout' = IF st.raised = "none" THEN Progress(k) ELSE stdout

\* the loop body, mod.forward returning
Step(outputs) ==
    /\ pc = "for_batch" /\ nbatch < Len(source)
    /\ Body(update(source[nbatch + 1], outputs), nbatch)
    /\ UNCHANGED <<source, sampleVars, orderVars, listVars>>

\* the data source is exhausted: the next cell prints metric.get()[1]
PrintResults ==
    /\ pc = "for_batch" /\ nbatch = Len(source)
    /\ trace' = Append(trace, Event("print", nbatch, get.raised # "AttributeError"))
    /\ stdout' = IF get.raised = "AttributeError" THEN stdout
                 ELSE Append(stdout, <<"mean Intersection Over Union (mIOU)", get>>)
    /\ pc' = IF get.raised = "AttributeError" THEN "aborted" ELSE "done"
    /\ UNCHANGED <<source, nbatch, metricVars, sampleVars, orderVars, listVars>>

NextDriver ==
    \/ ResetBoth
    \/ ForwardRaises
    \/ \E outputs \in Outputs : Step(outputs)
    \/ PrintResults

SpecDriver == InitDriver /\ [][NextDriver]_vars

\* reset, then inference and one update for each of the first n batches
RECURSIVE Processed(_)
Processed(n) ==
    IF n = 0 THEN <<Event("reset", 0, TRUE)>>
    ELSE Processed(n - 1) \o <<Event("forward", n, TRUE), Event("update", n, TRUE)>>

FinalLinePrinted ==
    \E k \in 1..Len(stdout) : stdout[k][1] = "mean Intersection Over Union (mIOU)"

\* what has happened so far, at each position of the driver
DriverOrder ==
    /\ pc = "driver" => trace = <<>> /\ ~FinalLinePrinted
    /\ pc = "for_batch" => trace = Processed(nbatch) /\ ~FinalLinePrinted
    /\ pc = "done" =>
          /\ nbatch = Len(source)
          /\ trace = Append(Processed(Len(source)), Event("print", nbatch, TRUE))
          /\ FinalLinePrinted
    /\ pc = "aborted" =>
          /\ ~FinalLinePrinted
          /\ \/ /\ nbatch < Len(source)
                /\ trace = Append(Processed(nbatch), Event("forward", nbatch + 1, FALSE))
             \/ /\ nbatch < Len(source)
                /\ trace = Processed(nbatch) \o <<Event("forward", nbatch + 1, TRUE),
                                                  Event("update", nbatch + 1, FALSE)>>
             \/ /\ nbatch = Len(source)
                /\ trace = Append(Processed(nbatch), Event("print", nbatch, FALSE))

\* C8: the run is reset, then inference and exactly one update for batch 1,
\* batch 2, ... in data-source order; the final mIOU line is printed only
\* after the last batch; once inference or update has raised on batch k the
\* run takes no further step: no retry, no later batch, no final line.
C8_DriverOrderAndAbort == []DriverOrder /\ [][pc # "aborted"]_vars

\* update raised on the second of three batches, after the first was processed
C8_Witness ==
    /\ pc = "aborted" /\ Len(source) = 3 /\ nbatch = 1
    /\ trace[Len(trace)] = Event("update", 2, FALSE)

====
